---- MODULE Spec2Model ----
(***************************************************************************)
(* gitfindr-rs: a registry of local git repositories kept in a config file *)
(* (src/main.rs).  The model covers the registry (GitFindrConfig), the     *)
(* repository validator (validate_repo), the directory walker              *)
(* (parse_directory) and the command dispatch of main, one action per      *)
(* branch of main and one per iteration of the walker's and the batch      *)
(* add's loops.                                                            *)
(*                                                                         *)
(* Strings are sequences of one-character strings, so that file_stem can   *)
(* cut a name at its last dot.  An Option is a sequence of length 0 (None) *)
(* or 1 (Some).  A path is the sequence of its components.                 *)
(***************************************************************************)
EXTENDS Naturals, Sequences, FiniteSets

VARIABLES
    pc,          \* position of main: idle, load, parse, scan, batch, store, exit
    run,         \* number of the current invocation of the program
    disk,        \* the registry held by the configuration store
    cmd,         \* the command line of this invocation
    fs,          \* the directory tree the invocation sees
    config,      \* main's `config: GitFindrConfig` (its `repos` map)
    loaded,      \* confy::load returned Ok in this run
    dir_paths,   \* parse_directory's `dir_paths: Vec<PathBuf>`
    repos,       \* parse_directory's `repos: Vec<RepoData>`, then main's loop over it
    batch,       \* the records main's `for repo in repos` has taken so far
    visited,     \* directories parse_directory has popped
    config0,     \* the registry as loaded (before the command acted)
    stdout,      \* lines written to the output stream in this run
    stderr,      \* lines written to the error stream in this run
    status,      \* <<>> while running, <<code>> once the process has ended
    stored,      \* "no" until confy::store is called, then "ok" or "err"
    vlog,        \* the last call of validate_repo: its listing and its result
    rlog         \* the last call of a registry operation: argument, result, registry before

vars == <<pc, run, disk, cmd, fs, config, loaded, dir_paths, repos, batch, visited,
          config0, stdout, stderr, status, stored, vlog, rlog>>

-----------------------------------------------------------------------------
(* Bounds of the model *)

\* invocations of the program in one behaviour
MaxRuns == 2

-----------------------------------------------------------------------------
(* Options *)

None == <<>>
Some(x) == <<x>>
IsSome(o) == Len(o) = 1

-----------------------------------------------------------------------------
(* Names and paths (std::path) *)

\* main.rs:17  const GIT_FILE: &str = ".git"
GIT_FILE == <<".", "g", "i", "t">>

\* a byte that is not valid UTF-8 (an OsStr may hold one, a &str may not)
BadByte == "xFF"

Normal(name) == [kind |-> "Normal", name |-> name]
CurDir == [kind |-> "CurDir", name |-> <<>>]
RootDir == [kind |-> "RootDir", name |-> <<>>]

\* Path::join / DirEntry::path: the directory's path with the entry's name appended
join(path, name) == Append(path, Normal(name))

\* Path::file_name: the last component when it is a normal one
file_name(path) ==
    IF Len(path) > 0 /\ path[Len(path)].kind = "Normal"
    THEN Some(path[Len(path)].name)
    ELSE None

\* index of the last "." of a name, 0 when it has none
LastDot(s) ==
    LET dots == {i \in 1..Len(s) : s[i] = "."}
    IN  IF dots = {} THEN 0 ELSE CHOOSE i \in dots : \A j \in dots : j <= i

\* Path::file_stem: the file name without its extension.  The whole name when
\* it has no dot or its only dot leads it, else the part before the last dot.
file_stem(path) ==
    LET fname == file_name(path)
    IN  IF ~IsSome(fname) THEN None
        ELSE LET s == fname[1]
                 d == LastDot(s)
             IN  IF d <= 1 THEN Some(s) ELSE Some(SubSeq(s, 1, d - 1))

\* OsStr::to_str: None when the name is not valid UTF-8
to_str(os_str) ==
    IF \E i \in 1..Len(os_str) : os_str[i] = BadByte THEN None ELSE Some(os_str)

\* a command-line value as ArgMatches::value_of hands it to main: a &str, so
\* Some only when every component of the path is valid UTF-8
path_to_str(path) ==
    IF \A i \in 1..Len(path) : IsSome(to_str(path[i].name)) THEN Some(path) ELSE None

-----------------------------------------------------------------------------
(* RepoData and GitFindrConfig *)

\* RepoData::new(name, path)
RepoData_new(name, path) == [name |-> name, path |-> path]

\* GitFindrConfig::default(): an empty map
EmptyConfig == [k \in {} |-> RepoData_new(<<>>, <<>>)]

contains_key(rs, name) == name \in DOMAIN rs

\* HashMap::insert
insert(rs, key, val) == [k \in DOMAIN rs \cup {key} |-> IF k = key THEN val ELSE rs[k]]

\* HashMap::remove
remove(rs, key) == [k \in DOMAIN rs \ {key} |-> rs[k]]

\* a faulty add_repo: no check of the key, the record replaces the one registered
add_repo_overwrite(rs, repo) ==
    [ret |-> "Ok", repos |-> insert(rs, repo.name, repo)]

\* a faulty add_repo: the key is the directory's name instead of the record's name
add_repo_key_from_path(rs, repo) ==
    LET key == IF IsSome(file_name(repo.path)) THEN file_name(repo.path)[1] ELSE <<>>
    IN  IF contains_key(rs, key)
        THEN [ret |-> "RepoAlreadyExistsError", repos |-> rs]
        ELSE [ret |-> "Ok", repos |-> insert(rs, key, repo)]

\* GitFindrConfig::add_repo: the result and the registry after the call
add_repo(rs, repo) ==
    IF contains_key(rs, repo.name)
    THEN [ret |-> "RepoAlreadyExistsError", repos |-> rs]
    ELSE [ret |-> "Ok", repos |-> insert(rs, repo.name, repo)]

\* a faulty remove_repo: it empties the map
remove_repo_clear(rs, name) ==
    IF ~contains_key(rs, name)
    THEN [ret |-> "RepoDoesNotExistError", repos |-> rs]
    ELSE [ret |-> "Ok", repos |-> EmptyConfig]

\* GitFindrConfig::remove_repo: the result and the registry after the call
remove_repo(rs, name) ==
    IF ~contains_key(rs, name)
    THEN [ret |-> "RepoDoesNotExistError", repos |-> rs]
    ELSE [ret |-> "Ok", repos |-> remove(rs, name)]

\* GitFindrConfig::get_repo
get_repo(rs, name) == IF name \in DOMAIN rs THEN Some(rs[name]) ELSE None

-----------------------------------------------------------------------------
(* The file system as fs::read_dir and DirEntry show it *)

\* One item of a ReadDir iterator: Ok(DirEntry) with its file name, and what
\* DirEntry::metadata answers for it, or Err (ok = FALSE).
DirEnt(name) == [ok |-> TRUE, name |-> name, is_dir |-> TRUE, meta_ok |-> TRUE]
FileEnt(name) == [ok |-> TRUE, name |-> name, is_dir |-> FALSE, meta_ok |-> TRUE]
NoMetaEnt(name) == [ok |-> TRUE, name |-> name, is_dir |-> TRUE, meta_ok |-> FALSE]
ErrEnt == [ok |-> FALSE, name |-> <<>>, is_dir |-> FALSE, meta_ok |-> FALSE]

\* every order in which a directory's entries may be listed
Perms(S) ==
    {s \in [1..Cardinality(S) -> S] : \A i, j \in 1..Cardinality(S) : i # j => s[i] # s[j]}

\* fs::read_dir(path): Err when the path is no directory that can be listed,
\* else an iterator over the entries in an order the platform chooses.
read_dir(tree, path) ==
    IF path \in DOMAIN tree.dirs /\ tree.dirs[path].listable
    THEN {[ok |-> TRUE, entries |-> s] : s \in Perms(tree.dirs[path].entries)}
    ELSE {[ok |-> FALSE, entries |-> <<>>]}

-----------------------------------------------------------------------------
(* validate_repo *)

RECURSIVE validate_entries(_, _)
\* the `for entry_res in dir_it` loop of validate_repo, from item i on
validate_entries(es, i) ==
    IF i > Len(es) THEN "NotARepositoryError"
    ELSE IF ~es[i].ok THEN "IoError"
    ELSE IF es[i].name = GIT_FILE THEN "Ok"
    ELSE validate_entries(es, i + 1)

\* a faulty validate_repo: it looks at the first entry only
validate_repo_first_only(rd) ==
    IF ~rd.ok THEN "IoError"
    ELSE IF Len(rd.entries) > 0 /\ rd.entries[1].ok /\ rd.entries[1].name = GIT_FILE
         THEN "Ok" ELSE validate_entries(rd.entries, Len(rd.entries) + 1)

\* validate_repo, given what fs::read_dir(path) returned
validate_repo(rd) ==
    IF ~rd.ok THEN "IoError" ELSE validate_entries(rd.entries, 1)

-----------------------------------------------------------------------------
(* parse_directory: one iteration of `while let Some(dir) = dir_paths.pop()` *)

RECURSIVE push_dirs(_, _, _)
\* `while let Some(Ok(dir_entry)) = dir_it.next()`: the paths pushed from item
\* i on.  The loop ends at the first item that is not Some(Ok(_)).
push_dirs(dir, es, i) ==
    IF i > Len(es) \/ ~es[i].ok THEN <<>>
    ELSE (IF es[i].meta_ok /\ es[i].is_dir THEN <<join(dir, es[i].name)>> ELSE <<>>)
         \o push_dirs(dir, es, i + 1)

\* lines 166-177: the directories to scan next and what is reported
list_children(dir, rd) ==
    IF rd.ok
    THEN [pushed |-> push_dirs(dir, rd.entries, 1), errs |-> <<>>]
    ELSE [pushed |-> <<>>, errs |-> <<"IoError">>]

\* a faulty version of lines 180-193: a record for every directory, validated or not
make_record_all(dir, rd) ==
    IF IsSome(file_stem(dir)) /\ IsSome(to_str(file_stem(dir)[1]))
    THEN [found |-> <<RepoData_new(to_str(file_stem(dir)[1])[1], dir)>>, errs |-> <<>>]
    ELSE [found |-> <<>>, errs |-> <<>>]

\* lines 180-193: the record made for dir when it is a repository, given
\* what validate_repo's own fs::read_dir(dir) returned
make_record(dir, rd) ==
    IF validate_repo(rd) = "Ok"
    THEN IF IsSome(file_stem(dir)) /\ IsSome(to_str(file_stem(dir)[1]))
         THEN [found |-> <<RepoData_new(to_str(file_stem(dir)[1])[1], dir)>>, errs |-> <<>>]
         ELSE [found |-> <<>>, errs |-> <<"RepoNameExtractError">>]
    ELSE [found |-> <<>>, errs |-> <<>>]

-----------------------------------------------------------------------------
(* Directory trees the program is run on *)

\* directory names: plain, with an extension, with a leading dot, with a
\* trailing dot, one that is not valid UTF-8, and one whose extension alone is not
Na == <<"a">>
Nb == <<"b">>
Nab == <<"a", ".", "b">>
Ndota == <<".", "a">>
Nadot == <<"a", ".">>
Nbad == <<"b", BadByte>>
Naxff == <<"a", ".", BadByte>>

NoFault == [kind |-> "none", at |-> 0]
Faults ==
    {NoFault}
    \cup {[kind |-> "unlistable", at |-> i] : i \in 0..3}
    \cup {[kind |-> "entry_err", at |-> i] : i \in 0..3}
    \cup {[kind |-> "meta_err", at |-> i] : i \in 1..3}

\* The tree  root/{n1/{n3}, n2}: directory 0 is the root, 1 is root/n1, 2 is
\* root/n2 and 3 is root/n1/n3.  The directories numbered in gits hold an
\* entry `.git` (a directory when gitdir, else a file); fault makes one
\* directory unlistable, adds a failing item to one listing, or makes
\* metadata() fail for one directory's entry.
MkTree(root, n1, n2, n3, gits, gitdir, fault) ==
    LET d0 == root
        d1 == join(root, n1)
        d2 == join(root, n2)
        d3 == join(d1, n3)
        Dir(i) == IF i = 0 THEN d0 ELSE IF i = 1 THEN d1 ELSE IF i = 2 THEN d2 ELSE d3
        Child(i, n) ==
            IF fault.kind = "meta_err" /\ fault.at = i THEN NoMetaEnt(n) ELSE DirEnt(n)
        Kids(i) ==
            IF i = 0 THEN {Child(1, n1), Child(2, n2)}
            ELSE IF i = 1 THEN {Child(3, n3)}
            ELSE IF i = 2 THEN {FileEnt(Nb)}
            ELSE {}
        Git(i) ==
            IF i \in gits THEN {IF gitdir THEN DirEnt(GIT_FILE) ELSE FileEnt(GIT_FILE)}
            ELSE {}
        Err(i) == IF fault.kind = "entry_err" /\ fault.at = i THEN {ErrEnt} ELSE {}
        Content(i) ==
            [listable |-> ~(fault.kind = "unlistable" /\ fault.at = i),
             entries |-> Kids(i) \cup Git(i) \cup Err(i)]
        gitDirs == IF gitdir THEN {join(Dir(i), GIT_FILE) : i \in gits} ELSE {}
        main == {Dir(i) : i \in 0..3}
        Index(p) == CHOOSE i \in 0..3 : Dir(i) = p
    IN  [root |-> root,
         dirs |-> [p \in main \cup gitDirs |->
                     IF p \in main THEN Content(Index(p))
                     ELSE [listable |-> TRUE, entries |-> {FileEnt(Na)}]]]

\* a file system with no directory in it
NoTree == [root |-> <<CurDir>>, dirs |-> [p \in {} |-> [listable |-> FALSE, entries |-> {}]]]

\* the trees the walker is checked on
ScanTrees ==
    {MkTree(r, n1, n2, n3, g, FALSE, NoFault) :
        r \in {<<CurDir>>, <<Normal(Nb)>>}, n1 \in {Na, Nab, Ndota}, n2 \in {Nb, Nbad, Naxff},
        n3 \in {Na, Nadot}, g \in SUBSET (0..3)}
    \cup {MkTree(r, Na, Nb, Nab, g, TRUE, NoFault) :
        r \in {<<RootDir>>, <<Normal(Na)>>}, g \in SUBSET (0..3)}
    \cup {MkTree(<<Normal(Nb)>>, Na, Nab, Nb, g, FALSE, f) :
        g \in {{0, 1, 2, 3}, {1, 3}, {0, 2}}, f \in Faults}

\* the trees whole invocations of the program are checked on
MainTrees ==
    {MkTree(<<CurDir>>, Na, Nab, Na, {0, 1, 2, 3}, FALSE, NoFault),
     MkTree(<<Normal(Nb)>>, Na, Nb, Nab, {1, 3}, TRUE, NoFault),
     MkTree(<<Normal(Nb)>>, Na, Nb, Na, {0, 1, 2}, FALSE, [kind |-> "entry_err", at |-> 1]),
     MkTree(<<Normal(Na)>>, Nb, Nbad, Nb, {1, 2}, FALSE, [kind |-> "unlistable", at |-> 3])}

-----------------------------------------------------------------------------
(* Command lines *)

Aliases == {Na, Nb}

Cmd(kind, d, alias, path, name, verbose) ==
    [kind |-> kind, d |-> d, alias |-> alias, path |-> path, name |-> name,
     verbose |-> verbose]

\* command lines that read the directory tree t: `add -d <root>` and
\* `add -a <alias> -p <path>` for the directories of t and a path that does
\* not exist
TreeCmds(t) ==
    {Cmd("add", Some(t.root), None, None, None, FALSE)}
    \cup {Cmd("add", None, Some(a), Some(p), None, FALSE) :
            a \in Aliases, p \in DOMAIN t.dirs \cup {<<Normal(Nadot)>>}}

\* command lines that never read the file system; "usage" is a command line
\* clap rejects (`remove` without its required -n)
PlainCmds ==
    {Cmd("add", None, a, None, None, FALSE) : a \in {None, Some(Na)}}
    \cup {Cmd("add", None, None, Some(<<Normal(Na)>>), None, FALSE)}
    \cup {Cmd("remove", None, None, None, Some(n), FALSE) : n \in Aliases}
    \cup {Cmd("list", None, None, None, None, v) : v \in BOOLEAN}
    \cup {Cmd("show", None, None, None, Some(n), v) : n \in Aliases, v \in BOOLEAN}
    \cup {Cmd("none", None, None, None, None, FALSE),
          Cmd("usage", None, None, None, None, FALSE)}

NoCmd == Cmd("none", None, None, None, None, FALSE)
NoVlog == [op |-> "none", path |-> <<>>, rd |-> [ok |-> FALSE, entries |-> <<>>], ret |-> ""]
NoRlog == [op |-> "none", repo |-> None, name |-> None, ret |-> "", before |-> EmptyConfig,
           batch |-> FALSE]

-----------------------------------------------------------------------------
(* One invocation of the program: main *)

Init ==
    /\ pc = "idle"
    /\ run = 0
    /\ disk = EmptyConfig
    /\ cmd = NoCmd
    /\ fs = NoTree
    /\ config = EmptyConfig
    /\ loaded = FALSE
    /\ dir_paths = <<>>
    /\ repos = <<>>
    /\ batch = <<>>
    /\ visited = {}
    /\ config0 = EmptyConfig
    /\ stdout = <<>>
    /\ stderr = <<>>
    /\ status = None
    /\ stored = "no"
    /\ vlog = NoVlog
    /\ rlog = NoRlog

\* The user runs the program with a command line, in a directory tree.  A
\* command that never reads the file system is run on the empty tree.
Invoke ==
    /\ pc \in {"idle", "exit"}
    /\ run < MaxRuns
    /\ \E t \in MainTrees \cup {NoTree} :
         \E c \in (IF t = NoTree THEN PlainCmds ELSE TreeCmds(t)) :
            /\ fs' = t
            /\ cmd' = c
    /\ run' = run + 1
    /\ pc' = "load"
    /\ config' = EmptyConfig
    /\ loaded' = FALSE
    /\ dir_paths' = <<>>
    /\ repos' = <<>>
    /\ batch' = <<>>
    /\ visited' = {}
    /\ config0' = EmptyConfig
    /\ stdout' = <<>>
    /\ stderr' = <<>>
    /\ status' = None
    /\ stored' = "no"
    /\ vlog' = NoVlog
    /\ rlog' = NoRlog
    /\ UNCHANGED disk

\* main.rs:199  confy::load(CONFIG_NAME) returns Ok: the stored registry (the
\* default, empty one when no file exists yet)
LoadOk ==
    /\ pc = "load"
    /\ config' = disk
    /\ config0' = disk
    /\ loaded' = TRUE
    /\ pc' = "parse"
    /\ UNCHANGED <<run, disk, cmd, fs, dir_paths, repos, batch, visited, stdout, stderr,
                   status, stored, vlog, rlog>>

\* a panic: the message goes to the error stream and the process ends with 101
Panic(msg) ==
    /\ stderr' = Append(stderr, msg)
    /\ status' = Some(101)
    /\ pc' = "exit"

\* main.rs:199  confy::load returns Err and .unwrap() panics
LoadErr ==
    /\ pc = "load"
    /\ Panic("panic: unwrap on Err")
    /\ UNCHANGED <<run, disk, cmd, fs, config, loaded, dir_paths, repos, batch, visited,
                   config0, stdout, stored, vlog, rlog>>

\* main.rs:272  get_matches() on a command line clap rejects: clap prints the
\* usage error and ends the process with status 1
ClapExit ==
    /\ pc = "parse"
    /\ cmd.kind = "usage"
    /\ stderr' = Append(stderr, "clap usage error")
    /\ status' = Some(1)
    /\ pc' = "exit"
    /\ UNCHANGED <<run, disk, cmd, fs, config, loaded, dir_paths, repos, batch, visited,
                   config0, stdout, stored, vlog, rlog>>

\* what every branch of `match matches.subcommand()` that only reports leaves alone
OnlyReports ==
    UNCHANGED <<run, disk, cmd, fs, config, loaded, dir_paths, repos, batch, visited,
                config0, status, stored, vlog, rlog>>

\* main.rs:276-279  add -d <dir>: parse_directory(dir_str) begins (lines 159-162)
AddDir ==
    /\ pc = "parse"
    /\ cmd.kind = "add"
    /\ IsSome(cmd.d)
    /\ dir_paths' = <<cmd.d[1]>>
    /\ repos' = <<>>
    /\ pc' = "scan"
    /\ UNCHANGED <<run, disk, cmd, fs, config, loaded, batch, visited, config0, stdout,
                   stderr, status, stored, vlog, rlog>>

\* main.rs:163-194  one iteration of parse_directory's loop: pop a directory,
\* push its sub-directories, validate it and push its record
ScanStep ==
    /\ pc = "scan"
    /\ dir_paths # <<>>
    /\ LET dir == dir_paths[Len(dir_paths)]
           rest == SubSeq(dir_paths, 1, Len(dir_paths) - 1)
       IN  \E rd1 \in read_dir(fs, dir), rd2 \in read_dir(fs, dir) :
              LET kids == list_children(dir, rd1)
                  rec == make_record(dir, rd2)
              IN  /\ dir_paths' = rest \o kids.pushed
                  /\ repos' = repos \o rec.found
                  /\ stderr' = stderr \o kids.errs \o rec.errs
                  /\ visited' = visited \cup {dir}
                  /\ vlog' = [op |-> "validate", path |-> dir, rd |-> rd2,
                              ret |-> validate_repo(rd2)]
    /\ UNCHANGED <<pc, run, disk, cmd, fs, config, loaded, batch, config0, stdout, status,
                   stored, rlog>>

\* main.rs:195, 280  parse_directory returns Ok(repos)
ScanDone ==
    /\ pc = "scan"
    /\ dir_paths = <<>>
    /\ pc' = "batch"
    /\ UNCHANGED <<run, disk, cmd, fs, config, loaded, dir_paths, repos, batch, visited,
                   config0, stdout, stderr, status, stored, vlog, rlog>>

\* what add_repo prints (line 103)
AddedLine(r) == IF r.ret = "Ok" THEN <<"Added">> ELSE <<>>

\* main.rs:281-285  one iteration of `for repo in repos`: add_repo, its result dropped
BatchAdd ==
    /\ pc = "batch"
    /\ Len(batch) < Len(repos)
    /\ LET repo == repos[Len(batch) + 1]
           r == add_repo(config, repo)
       IN  /\ config' = r.repos
           /\ stdout' = stdout \o AddedLine(r)
           /\ batch' = Append(batch, repo)
           /\ rlog' = [op |-> "add", repo |-> Some(repo), name |-> None, ret |-> r.ret,
                       before |-> config, batch |-> TRUE]
    /\ UNCHANGED <<pc, run, disk, cmd, fs, loaded, dir_paths, repos, visited, config0,
                   stderr, status, stored, vlog>>

\* main.rs:281-286  the loop over the scanned records ends
BatchDone ==
    /\ pc = "batch"
    /\ Len(batch) = Len(repos)
    /\ pc' = "store"
    /\ UNCHANGED <<run, disk, cmd, fs, config, loaded, dir_paths, repos, batch, visited,
                   config0, stdout, stderr, status, stored, vlog, rlog>>

\* main.rs:293  add -a <alias> -p <path> with a path that is not valid UTF-8:
\* args.value_of("path") yields a &str and panics on such a value, before
\* validate_repo is called
AddPathNotUtf8 ==
    /\ pc = "parse"
    /\ cmd.kind = "add"
    /\ ~IsSome(cmd.d)
    /\ IsSome(cmd.path)
    /\ ~IsSome(path_to_str(cmd.path[1]))
    /\ Panic("panic: value_of on invalid UTF-8")
    /\ UNCHANGED <<run, disk, cmd, fs, config, loaded, dir_paths, repos, batch, visited,
                   config0, stdout, stored, vlog, rlog>>

\* main.rs:293-300  add -a <alias> -p <path>: validate the path, then add
AddSingle ==
    /\ pc = "parse"
    /\ cmd.kind = "add"
    /\ ~IsSome(cmd.d)
    /\ IsSome(cmd.alias)
    /\ IsSome(cmd.path)
    /\ IsSome(path_to_str(cmd.path[1]))
    /\ \E rd \in read_dir(fs, cmd.path[1]) :
          LET v == validate_repo(rd)
              repo == RepoData_new(cmd.alias[1], cmd.path[1])
              r == add_repo(config, repo)
          IN  /\ vlog' = [op |-> "validate", path |-> cmd.path[1], rd |-> rd, ret |-> v]
              /\ IF v = "Ok"
                 THEN /\ config' = r.repos
                      /\ stdout' = stdout \o AddedLine(r)
                      /\ stderr' = IF r.ret = "Ok" THEN stderr ELSE Append(stderr, r.ret)
                      /\ rlog' = [op |-> "add", repo |-> Some(repo), name |-> None,
                                  ret |-> r.ret, before |-> config, batch |-> FALSE]
                 ELSE /\ stderr' = Append(stderr, v)
                      /\ UNCHANGED <<config, stdout, rlog>>
    /\ pc' = "store"
    /\ UNCHANGED <<run, disk, cmd, fs, loaded, dir_paths, repos, batch, visited, config0,
                   status, stored>>

\* main.rs:301  add without a path
AddNoPath ==
    /\ pc = "parse"
    /\ cmd.kind = "add"
    /\ ~IsSome(cmd.d)
    /\ ~IsSome(cmd.path)
    /\ stderr' = Append(stderr, "User tried to add a repo with no path.")
    /\ pc' = "store"
    /\ UNCHANGED stdout
    /\ OnlyReports

\* main.rs:302  add with a path and without an alias
AddNoName ==
    /\ pc = "parse"
    /\ cmd.kind = "add"
    /\ ~IsSome(cmd.d)
    /\ IsSome(cmd.path)
    /\ IsSome(path_to_str(cmd.path[1]))
    /\ ~IsSome(cmd.alias)
    /\ stderr' = Append(stderr, "User tried to add a repo with no name.")
    /\ pc' = "store"
    /\ UNCHANGED stdout
    /\ OnlyReports

\* main.rs:307-312  remove -n <name>: remove_repo, its result dropped.  (clap
\* requires -n, so the None branches of lines 313 and 340 are never taken,
\* nor is line 290: -d takes a value.)
Remove ==
    /\ pc = "parse"
    /\ cmd.kind = "remove"
    /\ IsSome(cmd.name)
    /\ LET r == remove_repo(config, cmd.name[1])
       IN  /\ config' = r.repos
           /\ rlog' = [op |-> "remove", repo |-> None, name |-> cmd.name, ret |-> r.ret,
                       before |-> config, batch |-> FALSE]
    /\ pc' = "store"
    /\ UNCHANGED <<run, disk, cmd, fs, loaded, dir_paths, repos, batch, visited, config0,
                   stdout, stderr, status, stored, vlog>>

\* main.rs:319-327  list: the entries (their lines taken as one, their order
\* being the map's), or "No repos to show!"
List ==
    /\ pc = "parse"
    /\ cmd.kind = "list"
    /\ ~cmd.verbose
    /\ stdout' = Append(stdout, IF DOMAIN config = {} THEN "No repos to show!" ELSE "entries")
    /\ pc' = "store"
    /\ UNCHANGED stderr
    /\ OnlyReports

\* main.rs:317-318  list -v: todo!() panics
ListVerbose ==
    /\ pc = "parse"
    /\ cmd.kind = "list"
    /\ cmd.verbose
    /\ Panic("panic: not yet implemented")
    /\ UNCHANGED <<run, disk, cmd, fs, config, loaded, dir_paths, repos, batch, visited,
                   config0, stdout, stored, vlog, rlog>>

\* main.rs:332-333  show -v: todo!() panics
ShowVerbose ==
    /\ pc = "parse"
    /\ cmd.kind = "show"
    /\ cmd.verbose
    /\ Panic("panic: not yet implemented")
    /\ UNCHANGED <<run, disk, cmd, fs, config, loaded, dir_paths, repos, batch, visited,
                   config0, stdout, stored, vlog, rlog>>

\* main.rs:335-339  show -n <name>: the record, or a line on the error stream
Show ==
    /\ pc = "parse"
    /\ cmd.kind = "show"
    /\ ~cmd.verbose
    /\ IsSome(cmd.name)
    /\ LET got == get_repo(config, cmd.name[1])
       IN  /\ stdout' = IF IsSome(got) THEN Append(stdout, "record") ELSE stdout
           /\ stderr' = IF IsSome(got) THEN stderr ELSE Append(stderr, "No repo to show for name")
           /\ rlog' = [op |-> "get", repo |-> got, name |-> cmd.name, ret |-> "",
                       before |-> config, batch |-> FALSE]
    /\ pc' = "store"
    /\ UNCHANGED <<run, disk, cmd, fs, config, loaded, dir_paths, repos, batch, visited,
                   config0, status, stored, vlog>>

\* main.rs:345  no subcommand
NoCommand ==
    /\ pc = "parse"
    /\ cmd.kind = "none"
    /\ stderr' = Append(stderr, "No valid command was used")
    /\ pc' = "store"
    /\ UNCHANGED stdout
    /\ OnlyReports

\* main.rs:348-349  confy::store returns Ok: the file now holds the registry
StoreOk ==
    /\ pc = "store"
    /\ disk' = config
    /\ stored' = "ok"
    /\ status' = Some(0)
    /\ pc' = "exit"
    /\ UNCHANGED <<run, cmd, fs, config, loaded, dir_paths, repos, batch, visited, config0,
                   stdout, stderr, vlog, rlog>>

\* main.rs:348-352  confy::store returns Err: the error is printed and main returns
StoreErr ==
    /\ pc = "store"
    /\ stored' = "err"
    /\ stderr' = Append(stderr, "IoError")
    /\ status' = Some(0)
    /\ pc' = "exit"
    /\ UNCHANGED <<run, disk, cmd, fs, config, loaded, dir_paths, repos, batch, visited,
                   config0, stdout, vlog, rlog>>

Next ==
    \/ Invoke
    \/ LoadOk
    \/ LoadErr
    \/ ClapExit
    \/ AddDir
    \/ ScanStep
    \/ ScanDone
    \/ BatchAdd
    \/ BatchDone
    \/ AddPathNotUtf8
    \/ AddSingle
    \/ AddNoPath
    \/ AddNoName
    \/ Remove
    \/ List
    \/ ListVerbose
    \/ ShowVerbose
    \/ Show
    \/ NoCommand
    \/ StoreOk
    \/ StoreErr

Spec == Init /\ [][Next]_vars

-----------------------------------------------------------------------------
(* The walker alone, on a wider family of trees: parse_directory(root) has *)
(* been called by `add -d <root>` on an empty registry (lines 159-162).    *)

InitScan ==
    /\ pc = "scan"
    /\ run = 1
    /\ disk = EmptyConfig
    /\ \E t \in ScanTrees :
          /\ fs = t
          /\ cmd = Cmd("add", Some(t.root), None, None, None, FALSE)
          /\ dir_paths = <<t.root>>
    /\ config = EmptyConfig
    /\ loaded = TRUE
    /\ repos = <<>>
    /\ batch = <<>>
    /\ visited = {}
    /\ config0 = EmptyConfig
    /\ stdout = <<>>
    /\ stderr = <<>>
    /\ status = None
    /\ stored = "no"
    /\ vlog = NoVlog
    /\ rlog = NoRlog

NextScan ==
    \/ ScanStep
    \/ ScanDone

SpecScan == InitScan /\ [][NextScan]_vars

-----------------------------------------------------------------------------
(* What the claims speak of, read off the tree and not off the code *)

\* directory p has a direct child entry named `.git`
HasGitEntry(t, p) ==
    p \in DOMAIN t.dirs /\ \E e \in t.dirs[p].entries : e.ok /\ e.name = GIT_FILE

Listable(t, p) == p \in DOMAIN t.dirs /\ t.dirs[p].listable

\* the repositories of a tree
Repositories(t) == {p \in DOMAIN t.dirs : HasGitEntry(t, p)}

\* every directory can be listed, every entry read and its metadata fetched
FaultFree(t) ==
    \A p \in DOMAIN t.dirs :
        /\ t.dirs[p].listable
        /\ \A e \in t.dirs[p].entries : e.ok /\ e.meta_ok

\* a name can be derived for the path: it ends in a normal component, and
\* that component cut before its last dot (left whole when it has no dot
\* after its first character) is valid UTF-8
Nameable(p) ==
    /\ Len(p) > 0
    /\ p[Len(p)].kind = "Normal"
    /\ LET n == p[Len(p)].name
           dots == {i \in 2..Len(n) : n[i] = "."}
           cut == IF dots = {} THEN Len(n)
                  ELSE (CHOOSE i \in dots : \A k \in dots : k <= i) - 1
       IN  \A i \in 1..cut : n[i] # BadByte

\* no listing of the tree yields an item that fails to be read
NoFailingItem(t) == \A p \in DOMAIN t.dirs : \A e \in t.dirs[p].entries : e.ok

\* the sub-directories of p that a listing of p shows as readable entries
SubDirs(t, p) ==
    IF Listable(t, p)
    THEN {Append(p, Normal(e.name)) : e \in {x \in t.dirs[p].entries : x.ok /\ x.meta_ok /\ x.is_dir}}
    ELSE {}

RECURSIVE ReachFrom(_, _, _)
ReachFrom(t, S, n) ==
    IF n = 0 THEN S ELSE ReachFrom(t, S \cup UNION {SubDirs(t, p) : p \in S}, n - 1)

\* the directories of the subtree under the root that no failing item hides
Reachable(t) == ReachFrom(t, {t.root}, Cardinality(DOMAIN t.dirs))

ScanReturned == pc = "batch"
ReturnedPaths == {repos[i].path : i \in 1..Len(repos)}

IsSingleAdd == cmd.kind = "add" /\ ~IsSome(cmd.d) /\ IsSome(cmd.alias) /\ IsSome(cmd.path)
IsScanAdd == cmd.kind = "add" /\ IsSome(cmd.d)

-----------------------------------------------------------------------------
(* C1  Registry.add *)

\* C1: after add(record): when record.name was a key the call failed with
\* RepoAlreadyExistsError and the registry is as it was (the first record keeps
\* its path); when it was not, the call succeeded, get(record.name) returns the
\* record, and every other entry is unchanged.
C1_AddContract ==
    rlog.op = "add" =>
        LET b == rlog.before
            r == rlog.repo[1]
        IN  /\ r.name \in DOMAIN b =>
                /\ rlog.ret = "RepoAlreadyExistsError"
                /\ config = b
            /\ r.name \notin DOMAIN b =>
                /\ rlog.ret = "Ok"
                /\ get_repo(config, r.name) = Some(r)
                /\ DOMAIN config = DOMAIN b \cup {r.name}
                /\ \A k \in DOMAIN b : config[k] = b[k]

\* a second add under a name already registered with another path has failed,
\* beside another entry
C1_Witness ==
    /\ rlog.op = "add"
    /\ rlog.ret = "RepoAlreadyExistsError"
    /\ rlog.repo[1].name \in DOMAIN config
    /\ config[rlog.repo[1].name].path # rlog.repo[1].path
    /\ Cardinality(DOMAIN config) >= 2

-----------------------------------------------------------------------------
(* C2  Registry.remove *)

\* C2: after remove(name): when name was absent the call failed with
\* RepoDoesNotExistError and the registry is unchanged; when it was present the
\* call succeeded, get(name) returns None and every other entry is unchanged.
C2_RemoveContract ==
    rlog.op = "remove" =>
        LET b == rlog.before
            n == rlog.name[1]
        IN  /\ n \notin DOMAIN b =>
                /\ rlog.ret = "RepoDoesNotExistError"
                /\ config = b
            /\ n \in DOMAIN b =>
                /\ rlog.ret = "Ok"
                /\ get_repo(config, n) = None
                /\ DOMAIN config = DOMAIN b \ {n}
                /\ \A k \in DOMAIN config : config[k] = b[k]

\* a present name was removed and another entry stayed
C2_Witness ==
    /\ rlog.op = "remove"
    /\ rlog.ret = "Ok"
    /\ rlog.name[1] \in DOMAIN rlog.before
    /\ DOMAIN config # {}

-----------------------------------------------------------------------------
(* C3  the walker returns one record per repository *)

\* C3 as claimed: on a tree whose directories can all be read, scan returns
\* exactly one record per repository (the root and nested ones included) and
\* none for another directory, whatever the order of the listings.
C3_OneRecordPerRepository ==
    (ScanReturned /\ FaultFree(fs)) =>
        /\ Len(repos) = Cardinality(Repositories(fs))
        /\ ReturnedPaths = Repositories(fs)

\* the repositories scan can be asked for: those reachable from the root
\* through listable directories and readable entries, themselves listable,
\* for which a name can be derived
Discoverable(t) ==
    {p \in Reachable(t) : Listable(t, p) /\ HasGitEntry(t, p) /\ Nameable(p)}

\* C3 as amended: on every tree, scan returns at most one record per directory,
\* each for a reachable repository for which a name can be derived, and none
\* for another directory (a repository given as `.` or `/`, or whose name
\* before its last dot is not UTF-8, gets none); when no listing yields a
\* failing item it returns exactly one record for every such repository,
\* whatever the order of the listings.
C3_OneRecordPerNameableRepository ==
    ScanReturned =>
        /\ Len(repos) = Cardinality(ReturnedPaths)
        /\ ReturnedPaths \subseteq Discoverable(fs)
        /\ NoFailingItem(fs) => ReturnedPaths = Discoverable(fs)

\* a scan has returned a root that is a repository, a repository inside it
\* whose name is not UTF-8 after its last dot, and one at depth three below
\* a directory that is no repository
C3_Witness ==
    /\ ScanReturned
    /\ fs.root = <<Normal(Nb)>>
    /\ fs.root \in ReturnedPaths
    /\ join(fs.root, Naxff) \in ReturnedPaths
    /\ \E q \in ReturnedPaths : Len(q) = 3 /\ SubSeq(q, 1, 2) \notin Repositories(fs)
    /\ Len(repos) = 3

-----------------------------------------------------------------------------
(* C4  the name of a scanned record *)

\* C4 as claimed: every record scan returns for a directory d has path d, a
\* repository, and a name equal to the last component of d in full.
C4_NameIsLastComponent ==
    ScanReturned =>
        \A i \in 1..Len(repos) :
            /\ repos[i].path \in Repositories(fs)
            /\ file_name(repos[i].path) = Some(repos[i].name)

-----------------------------------------------------------------------------
(* C5  validate_repo *)

\* C5 as claimed: validate succeeds for every directory with a direct child
\* named `.git`, fails with NotARepositoryError for every listable directory
\* without one, and fails with an I/O error for a directory that cannot be
\* listed.
C5_ValidateByGitEntry ==
    vlog.op = "validate" =>
        /\ HasGitEntry(fs, vlog.path) /\ Listable(fs, vlog.path) => vlog.ret = "Ok"
        /\ Listable(fs, vlog.path) /\ ~HasGitEntry(fs, vlog.path)
              => vlog.ret = "NotARepositoryError"
        /\ ~Listable(fs, vlog.path) => vlog.ret = "IoError"

\* C5 as amended: validate succeeds exactly when the listing yields an entry
\* named `.git` before any item that fails to be read; it fails with
\* NotARepositoryError exactly when the directory is listed to its end
\* without a failing item and without such an entry; it fails with an I/O
\* error when the directory cannot be listed or an item fails before `.git`
\* is seen.  A failed validation of `add -a -p` leaves the registry as loaded.
C5_ValidateByListing ==
    vlog.op = "validate" =>
        LET es == vlog.rd.entries
            gitFirst == \E i \in 1..Len(es) :
                            /\ es[i].ok /\ es[i].name = GIT_FILE
                            /\ \A j \in 1..(i - 1) : es[j].ok
            clean == \A i \in 1..Len(es) : es[i].ok /\ es[i].name # GIT_FILE
        IN  /\ vlog.ret = "Ok" <=> (vlog.rd.ok /\ gitFirst)
            /\ vlog.ret = "NotARepositoryError" <=> (vlog.rd.ok /\ clean)
            /\ vlog.ret = "IoError" <=> (~vlog.rd.ok \/ (~gitFirst /\ ~clean))
            /\ (IsSingleAdd /\ vlog.ret # "Ok") => (config = config0 /\ rlog = NoRlog)

\* a directory holding `.git` was validated and an item failed before `.git`
C5_Witness ==
    /\ vlog.op = "validate"
    /\ HasGitEntry(fs, vlog.path)
    /\ vlog.rd.ok
    /\ vlog.ret = "IoError"
    /\ IsSingleAdd
    /\ pc = "store"

-----------------------------------------------------------------------------
(* C6  the registry is stored before the process ends *)

\* C6 as claimed: a run that loaded the registry and was given add, remove,
\* list, show (any flags) or no valid command has called confy::store by the
\* time it ends.
C6_StoreBeforeExit ==
    (pc = "exit" /\ loaded /\ cmd.kind \in {"add", "remove", "list", "show", "none"})
        => stored # "no"

-----------------------------------------------------------------------------
(* C7  directory-scan add *)

\* a step of main's loop over the scanned records
BatchTurn == pc = "batch" /\ Len(batch) < Len(repos) /\ batch' # batch

\* C7 as claimed: a record whose name is already a key at its turn is skipped
\* and reported to the user.
C7_CollisionReported ==
    [][(BatchTurn /\ contains_key(config, repos[Len(batch) + 1].name))
         => (config' = config /\ (stderr' # stderr \/ stdout' # stdout))]_vars

\* C7 as amended: add is called once per scanned record in turn; a record
\* whose name is already a key at its turn is skipped without any report,
\* every record whose name is not yet a key at its turn is registered, and
\* no entry that was in the registry before the batch is changed or removed.
C7_BatchAdd ==
    [][BatchTurn =>
         LET repo == repos[Len(batch) + 1]
         IN  /\ batch' = Append(batch, repo)
             /\ contains_key(config, repo.name) =>
                   (config' = config /\ stderr' = stderr /\ stdout' = stdout)
             /\ ~contains_key(config, repo.name) =>
                   (contains_key(config', repo.name) /\ config'[repo.name] = repo)
             /\ \A k \in DOMAIN config0 :
                   contains_key(config', k) /\ config'[k] = config0[k]]_vars

\* in one batch a record was skipped for a name registered before the batch
\* and a later record was registered
C7_Witness ==
    /\ pc = "batch"
    /\ \E i, j \in 1..Len(batch) :
          /\ i < j
          /\ batch[i].name \in DOMAIN config0
          /\ config[batch[i].name] # batch[i]
          /\ batch[j].name \notin DOMAIN config0
          /\ config[batch[j].name] = batch[j]

-----------------------------------------------------------------------------
(* C8  fatal and non-fatal failures *)

\* a failure main reports for the command itself
NonFatalFailure ==
    \/ IsSingleAdd /\ vlog.op = "validate" /\ vlog.ret # "Ok"
    \/ IsSingleAdd /\ rlog.ret = "RepoAlreadyExistsError"
    \/ cmd.kind = "remove" /\ rlog.ret = "RepoDoesNotExistError"
    \/ cmd.kind = "show" /\ ~cmd.verbose /\ rlog.repo = None
    \/ IsScanAdd /\ stderr # <<>>

\* C8 as claimed: when the process has ended, a failed load or a failed store
\* has left an error message and a non-zero status, and after any other
\* failure the run went on to the store.
C8_FatalOnlyLoadStore ==
    pc = "exit" =>
        /\ ~loaded => (status # Some(0) /\ stderr # <<>>)
        /\ stored = "err" => (status # Some(0) /\ stderr # <<>>)
        /\ (loaded /\ NonFatalFailure) => stored # "no"

-----------------------------------------------------------------------------
(* C9  the registry's invariant *)

\* C9: in the registry in memory and in the stored one, every key maps to a
\* record whose name is that key (and, the registry being a map, no two
\* entries share a key), after any sequence of invocations from the empty
\* registry.
C9_KeyIsName ==
    /\ \A k \in DOMAIN config : config[k].name = k
    /\ \A k \in DOMAIN disk : disk[k].name = k

\* the stored registry holds an entry added under an alias that is not its
\* directory's name, beside another entry
C9_Witness ==
    /\ pc = "exit"
    /\ Cardinality(DOMAIN disk) >= 2
    /\ \E k \in DOMAIN disk : file_name(disk[k].path) # Some(k)

-----------------------------------------------------------------------------
(* C10  failures inside a scan are local *)

\* C10 as claimed: when scan returns, every directory of the subtree that no
\* failing item hides was visited, later siblings of a failing entry
\* included, and every repository among them whose name can be derived was
\* returned.
C10_FailuresAreLocal ==
    ScanReturned =>
        /\ Reachable(fs) \subseteq visited
        /\ \A p \in Reachable(fs) :
              (Listable(fs, p) /\ HasGitEntry(fs, p) /\ Nameable(p)) => p \in ReturnedPaths

====
